---- MODULE Spec2Model ----
(***************************************************************************)
(* State-machine model of the signalling relay in src/src/main.rs:         *)
(* the shared State (sessions, peers) behind Arc<Mutex<State>>, the        *)
(* per-connection unbounded channels, handle_message and the connection    *)
(* tasks that call it under the lock.                                      *)
(***************************************************************************)
EXTENDS Integers, Sequences, FiniteSets, TLC

\* ---------------------------------------------------------------- bounds
\* At most MaxQueue frames are queued, over all channels, at any time.
MaxQueue == 1

\* The identifiers clients use and the accepted connections.
Uuid == {"A", "B", "C"}
Conns == {"a", "b"}

\* ------------------------------------------------------- identity strings
\* The text of an identity field.  Uuid::parse_str accepts several spellings
\* of one identifier (hyphenated, simple) and rejects anything else.
Hyphenated(u) == [form |-> "hyphenated", id |-> u]
Simple(u) == [form |-> "simple", id |-> u]
Garbage == [form |-> "garbage", id |-> "?"]
Absent == [form |-> "absent", id |-> ""]

ParseError == "ParseError"

parse_str(s) == IF s.form \in {"hyphenated", "simple"} THEN s.id ELSE ParseError

\* ------------------------------------------------------------ raw frames
\* A received text frame: the JSON object's tag and identity fields.
Frame(t, u, to, room) == [type |-> t, uuid |-> u, to |-> to, room |-> room]

RelayTags == {"offer", "answer", "ice"}

\* The frames clients send.  Identifier C only ever joins and identifier A
\* only ever starts; a start also comes in the simple spelling.
StartStrings == {Hyphenated("A"), Hyphenated("B"), Simple("A"), Garbage}
LeaveStrings == {Hyphenated(u) : u \in Uuid} \cup {Garbage}
JoinUuidStrings == {Hyphenated("B"), Hyphenated("C")}
JoinRoomStrings == {Hyphenated("A"), Hyphenated("B")}
RelayFromStrings == {Hyphenated("B"), Garbage}
RelayToStrings == {Hyphenated("A"), Garbage}

StartFrames == {Frame("start", u, Absent, Absent) : u \in StartStrings}
LeaveFrames == {Frame("leave", u, Absent, Absent) : u \in LeaveStrings}
JoinFrames ==
    {Frame("join", u, Absent, r) : u \in JoinUuidStrings, r \in JoinRoomStrings}
    \cup {Frame("join", Garbage, Absent, Hyphenated("A")),
          Frame("join", Hyphenated("B"), Absent, Garbage)}
RelayFrames ==
    {Frame("offer", u, to, Absent) : u \in RelayFromStrings, to \in RelayToStrings}
UndecodableFrames ==
    {Frame("bogus", Hyphenated("A"), Absent, Absent),
     Frame("join", Hyphenated("B"), Absent, Absent)}

Frames ==
    StartFrames \cup LeaveFrames \cup JoinFrames \cup RelayFrames
    \cup UndecodableFrames

\* serde_json::from_str into SignallerMessage: the tag must be one of the six
\* variants and every field of the variant must be present.
from_str(raw) ==
    CASE raw.type \in RelayTags -> raw.uuid # Absent /\ raw.to # Absent
      [] raw.type = "join" -> raw.uuid # Absent /\ raw.room # Absent
      [] raw.type \in {"start", "leave"} -> raw.uuid # Absent
      [] OTHER -> FALSE

\* ------------------------------------------------------------------ state
VARIABLES
    sessions,   \* State.sessions : Uuid -> Session (a partial map)
    peers,      \* State.peers    : Uuid -> Peer    (a partial map)
    chan,       \* per connection, the frames queued on its unbounded channel
    conn,       \* per connection, the state of its task
    poisoned,   \* the Mutex is poisoned (a holder panicked)
    result,     \* what the last handled text frame came to
    task        \* per connection, the frame its task is inside the closure with

vars == <<sessions, peers, chan, conn, poisoned, result, task>>

Put(f, k, v) == [x \in DOMAIN f \cup {k} |-> IF x = k THEN v ELSE f[x]]
Drop(f, K) == [x \in DOMAIN f \ K |-> f[x]]
Empty == [x \in {} |-> ""]

Session_new(sharer) == [sharer |-> sharer, viewers |-> {}]

Peer(session, sender, peer_type) ==
    [session |-> session, sender |-> sender, peer_type |-> peer_type]

State(s, p) == [sessions |-> s, peers |-> p]

Done(st, ch, res) == [st |-> st, chan |-> ch, res |-> res]

\* add_sharer without the contains_key test: the session is created anew.
add_sharer_overwrites(st, id, sender) ==
    [st |-> State(Put(st.sessions, id, Session_new(id)),
                  Put(st.peers, id, Peer(id, sender, "Sharer"))),
     res |-> "Ok"]

\* add_sharer that keeps the peer record an identity already has.
add_sharer_keeps_peer(st, id, sender) ==
    IF id \in DOMAIN st.sessions
    THEN [st |-> st, res |-> "SessionAlreadyExists"]
    ELSE [st |-> State(Put(st.sessions, id, Session_new(id)),
                       IF id \in DOMAIN st.peers
                       THEN st.peers
                       ELSE Put(st.peers, id, Peer(id, sender, "Sharer"))),
          res |-> "Ok"]

\* State::add_sharer
add_sharer(st, id, sender) ==
    IF id \in DOMAIN st.sessions
    THEN [st |-> st, res |-> "SessionAlreadyExists"]
    ELSE [st |-> State(Put(st.sessions, id, Session_new(id)),
                       Put(st.peers, id, Peer(id, sender, "Sharer"))),
          res |-> "Ok"]

\* State::add_viewer
add_viewer(st, id, session, sender) ==
    IF session \notin DOMAIN st.sessions
    THEN [st |-> st, res |-> "SessionNotFound"]
    ELSE [st |-> State(
                   Put(st.sessions, session,
                       [st.sessions[session] EXCEPT !.viewers = @ \cup {id}]),
                   Put(st.peers, id, Peer(session, sender, "Viewer"))),
          res |-> "Ok"]

\* end_session without the loop over the viewers: only the sharer's peer
\* record goes with the session.
end_session_keeps_viewers(st, id) ==
    IF id \notin DOMAIN st.peers
    THEN [st |-> st, res |-> "Panic"]
    ELSE LET session_id == st.peers[id].session IN
         IF session_id \notin DOMAIN st.sessions
         THEN [st |-> st, res |-> "SessionNotFound"]
         ELSE LET session == st.sessions[session_id] IN
              [st |-> State(Drop(st.sessions, {session_id}),
                            Drop(st.peers, {session.sharer})),
               res |-> "Ok"]

\* State::end_session.  The unwrap of peers.get(&id) panics when id has no
\* peer record.
end_session(st, id) ==
    IF id \notin DOMAIN st.peers
    THEN [st |-> st, res |-> "Panic"]
    ELSE LET session_id == st.peers[id].session IN
         IF session_id \notin DOMAIN st.sessions
         THEN [st |-> st, res |-> "SessionNotFound"]
         ELSE LET session == st.sessions[session_id] IN
              [st |-> State(Drop(st.sessions, {session_id}),
                            Drop(st.peers, session.viewers \cup {session.sharer})),
               res |-> "Ok"]

\* unbounded_send onto a channel that hands out the newest frame first.
unbounded_send_in_front(ch, cn, sender, raw) ==
    IF cn[sender] = "open"
    THEN [chan |-> [ch EXCEPT ![sender] = <<raw>> \o @], res |-> "Ok"]
    ELSE [chan |-> ch, res |-> "SendError"]

\* UnboundedSender::unbounded_send: fails once the receiver is gone.
unbounded_send(ch, cn, sender, raw) ==
    IF cn[sender] = "open"
    THEN [chan |-> [ch EXCEPT ![sender] = Append(@, raw)], res |-> "Ok"]
    ELSE [chan |-> ch, res |-> "SendError"]

\* forward_message without the ok_or: a target with no peer record is passed
\* over in silence.
forward_message_unchecked(st, ch, cn, to, raw) ==
    IF parse_str(to) = ParseError
    THEN [chan |-> ch, res |-> "MalformedIdentity"]
    ELSE IF parse_str(to) \notin DOMAIN st.peers
         THEN [chan |-> ch, res |-> "Ok"]
         ELSE unbounded_send(ch, cn, st.peers[parse_str(to)].sender, raw)

\* handle_message's forward_message closure
forward_message(st, ch, cn, to, raw) ==
    IF parse_str(to) = ParseError
    THEN [chan |-> ch, res |-> "MalformedIdentity"]
    ELSE IF parse_str(to) \notin DOMAIN st.peers
         THEN [chan |-> ch, res |-> "PeerNotFound"]
         ELSE unbounded_send(ch, cn, st.peers[parse_str(to)].sender, raw)

\* The Join arm without the forward: the viewer is registered and the
\* sharer is not told.
handle_join_unannounced(st, ch, cn, tx, raw) ==
    IF parse_str(raw.uuid) = ParseError \/ parse_str(raw.room) = ParseError
    THEN Done(st, ch, "MalformedIdentity")
    ELSE LET a == add_viewer(st, parse_str(raw.uuid), parse_str(raw.room), tx) IN
         Done(a.st, ch, a.res)

\* handle_message, the Join arm
handle_join(st, ch, cn, tx, raw) ==
    IF parse_str(raw.uuid) = ParseError \/ parse_str(raw.room) = ParseError
    THEN Done(st, ch, "MalformedIdentity")
    ELSE LET a == add_viewer(st, parse_str(raw.uuid), parse_str(raw.room), tx) IN
         IF a.res # "Ok"
         THEN Done(st, ch, a.res)
         ELSE LET f == forward_message(a.st, ch, cn, raw.room, raw) IN
              Done(a.st, f.chan, f.res)

\* handle_message, the Start arm
handle_start(st, ch, tx, raw) ==
    IF parse_str(raw.uuid) = ParseError
    THEN Done(st, ch, "MalformedIdentity")
    ELSE LET a == add_sharer(st, parse_str(raw.uuid), tx) IN
         Done(a.st, ch, a.res)

\* handle_message, the Leave arm
handle_leave(st, ch, raw) ==
    IF parse_str(raw.uuid) = ParseError
    THEN Done(st, ch, "MalformedIdentity")
    ELSE LET a == end_session(st, parse_str(raw.uuid)) IN
         Done(a.st, ch, a.res)

\* handle_message, the Offer | Answer | Ice arm
handle_relay(st, ch, cn, raw) ==
    LET f == forward_message(st, ch, cn, raw.to, raw) IN
    Done(st, f.chan, f.res)

\* handle_message
handle_message(st, ch, cn, tx, raw) ==
    IF ~from_str(raw)
    THEN Done(st, ch, "MalformedMessage")
    ELSE CASE raw.type = "join" -> handle_join(st, ch, cn, tx, raw)
           [] raw.type = "start" -> handle_start(st, ch, tx, raw)
           [] raw.type = "leave" -> handle_leave(st, ch, raw)
           [] OTHER -> handle_relay(st, ch, cn, raw)

\* The number of frames queued over all channels (counted up to the cap).
Queued(ch) ==
    Cardinality({p \in Conns \X (1..MaxQueue + 1) : p[2] <= Len(ch[p[1]])})

\* A task waiting for its next frame, and one that holds frame raw: about
\* to lock the Mutex ("lock"), holding it ("inside", and "mid" between the
\* write of the sessions map and that of the peers map), or through ("done").
NoFrame == [type |-> "none", uuid |-> Absent, to |-> Absent, room |-> Absent]
Awaiting == [at |-> "await", raw |-> NoFrame, res |-> "none"]
Holding(at, raw, res) == [at |-> at, raw |-> raw, res |-> res]

\* No task holds the Mutex.
Unlocked == \A k \in Conns : task[k].at \notin {"inside", "mid"}

\* State::new, and the accepted connections: each with its channel, waiting
\* for its first frame.
Init ==
    /\ sessions = Empty
    /\ peers = Empty
    /\ chan = [c \in Conns |-> <<>>]
    /\ conn = [c \in Conns |-> "open"]
    /\ poisoned = FALSE
    /\ result = "none"
    /\ task = [c \in Conns |-> Awaiting]

\* The effect of the closure of broadcast_incoming once handle_message has
\* come to d under the guard: the error is logged and the guard dropped.  A
\* panic inside poisons the Mutex and ends the task, whose receiver is
\* dropped.
Unlock(c, d) ==
    /\ result' = d.res
    /\ IF d.res = "Panic"
       THEN /\ poisoned' = TRUE
            /\ conn' = [conn EXCEPT ![c] = "closed"]
            /\ chan' = [chan EXCEPT ![c] = <<>>]
            /\ UNCHANGED <<sessions, peers>>
       ELSE /\ sessions' = d.st.sessions
            /\ peers' = d.st.peers
            /\ chan' = d.chan
            /\ UNCHANGED <<conn, poisoned>>

\* One text frame of broadcast_incoming, start to end: lock, handle_message,
\* unlock.
HandleFrame(c, raw) ==
    /\ conn[c] = "open"
    /\ task[c].at = "await"
    /\ Unlocked
    /\ ~poisoned
    /\ LET d == handle_message(State(sessions, peers), chan, conn, c, raw) IN
       /\ Queued(d.chan) <= MaxQueue
       /\ Unlock(c, d)
    /\ UNCHANGED task

\* A text frame received once the Mutex is poisoned: state.lock().unwrap()
\* panics and the task ends.
LockPoisoned(c) ==
    /\ conn[c] = "open"
    /\ task[c].at \in {"await", "lock"}
    /\ poisoned
    /\ conn' = [conn EXCEPT ![c] = "closed"]
    /\ chan' = [chan EXCEPT ![c] = <<>>]
    /\ result' = "PoisonPanic"
    /\ UNCHANGED <<sessions, peers, poisoned, task>>

\* A frame that is not text is skipped before the lock.
SkipNonText(c) ==
    /\ conn[c] = "open"
    /\ task[c].at = "await"
    /\ UNCHANGED vars

\* receive_from_others: the head of the channel is written to the socket.
Deliver(c) ==
    /\ conn[c] = "open"
    /\ task[c].at \in {"await", "done"}
    /\ chan[c] # <<>>
    /\ chan' = [chan EXCEPT ![c] = Tail(@)]
    /\ UNCHANGED <<sessions, peers, conn, poisoned, result, task>>

\* A disconnect with the termination logic of the todo: the peer records
\* registered through the connection are removed.
Disconnect_with_cleanup(c) ==
    /\ conn[c] = "open"
    /\ task[c].at \in {"await", "done"}
    /\ conn' = [conn EXCEPT ![c] = "closed"]
    /\ chan' = [chan EXCEPT ![c] = <<>>]
    /\ peers' = Drop(peers, {p \in DOMAIN peers : peers[p].sender = c})
    /\ UNCHANGED <<sessions, poisoned, result, task>>

\* The stream closes or errors: select returns, the task ends and the
\* receiver is dropped.  No cleanup of the shared state.
Disconnect(c) ==
    /\ conn[c] = "open"
    /\ task[c].at \in {"await", "done"}
    /\ conn' = [conn EXCEPT ![c] = "closed"]
    /\ chan' = [chan EXCEPT ![c] = <<>>]
    /\ UNCHANGED <<sessions, peers, poisoned, result, task>>

Next ==
    \E c \in Conns :
        \/ \E raw \in Frames : HandleFrame(c, raw)
        \/ LockPoisoned(c)
        \/ SkipNonText(c)
        \/ Deliver(c)
        \/ Disconnect(c)

Spec == Init /\ [][Next]_vars

\* ------------------------------------------------- tasks racing for the lock
\* state.lock() of a lock that excludes nobody.
Lock_excludes_nobody(c) ==
    /\ conn[c] = "open"
    /\ task[c].at = "lock"
    /\ ~poisoned
    /\ task' = [task EXCEPT ![c] = Holding("inside", @.raw, "none")]
    /\ UNCHANGED <<sessions, peers, chan, conn, poisoned, result>>

\* The tasks run in parallel: each has read a frame and goes for the Mutex.
\* state.lock(): the task gets the guard once no other task holds it.
Lock(c) ==
    /\ conn[c] = "open"
    /\ task[c].at = "lock"
    /\ Unlocked
    /\ ~poisoned
    /\ task' = [task EXCEPT ![c] = Holding("inside", @.raw, "none")]
    /\ UNCHANGED <<sessions, peers, chan, conn, poisoned, result>>

\* handle_message under the guard, then the guard is dropped.
HandleLocked(c) ==
    /\ task[c].at = "inside"
    /\ Unlock(c, handle_message(State(sessions, peers), chan, conn, c,
                                task[c].raw))
    /\ task' = [task EXCEPT ![c] = Holding("done", @.raw, result')]

\* The Join frames of the race: any identifier joins, the room in either
\* spelling.
RaceJoinFrames ==
    {Frame("join", Hyphenated(v), Absent, r) :
        v \in Uuid, r \in {Hyphenated("A"), Simple("A"), Hyphenated("B")}}

\* The states a race for session r starts from: r was just started through
\* connection s, or r = B is the session left behind by
\* Start{A}, Join{B, A}, Start{B}, Leave{A} (no peer record, no viewer).
RaceStates(r) ==
    {add_sharer(State(Empty, Empty), r, s).st : s \in Conns}
    \cup (IF r = "B" THEN {State(Put(Empty, r, Session_new(r)), Empty)} ELSE {})

\* Every connection has read a Join frame for the same existing session,
\* with pairwise distinct viewer identities.
InitJoin ==
    /\ \E jf \in [Conns -> RaceJoinFrames] :
          /\ \A c, k \in Conns :
                /\ parse_str(jf[c].room) = parse_str(jf[k].room)
                /\ c # k => parse_str(jf[c].uuid) # parse_str(jf[k].uuid)
          /\ task = [c \in Conns |-> Holding("lock", jf[c], "none")]
          /\ \E st \in UNION {RaceStates(parse_str(jf[c].room)) : c \in Conns} :
                sessions = st.sessions /\ peers = st.peers
    /\ chan = [c \in Conns |-> <<>>]
    /\ conn = [c \in Conns |-> "open"]
    /\ poisoned = FALSE
    /\ result = "none"

NextJoin ==
    \E c \in Conns :
        \/ Lock(c)
        \/ HandleLocked(c)
        \/ Deliver(c)
        \/ Disconnect(c)

SpecJoin == InitJoin /\ [][NextJoin]_vars

\* ------------------------------------------------------- the relayed frames
\* Frames of a negotiation: identifiers A and B start, B joins A, and B sends
\* offer, answer and ice to a registered, an unregistered and an unparsable
\* target.
SetupFrames ==
    {Frame("start", Hyphenated("A"), Absent, Absent),
     Frame("start", Hyphenated("B"), Absent, Absent),
     Frame("join", Hyphenated("B"), Absent, Hyphenated("A"))}
NegotiationToStrings == {Hyphenated("A"), Simple("A"), Hyphenated("C"), Garbage}
NegotiationFrames ==
    {Frame(t, Hyphenated("B"), to, Absent) :
        t \in RelayTags, to \in NegotiationToStrings}

NextRelay ==
    \E c \in Conns :
        \/ \E raw \in SetupFrames \cup NegotiationFrames : HandleFrame(c, raw)
        \/ Deliver(c)
        \/ Disconnect(c)

SpecRelay == Init /\ [][NextRelay]_vars

\* ------------------------------------------------- one session, end to end
\* incoming yields the text frame raw to the task of connection c.
Receive(c, raw) ==
    /\ conn[c] = "open"
    /\ task[c].at \in {"await", "done"}
    /\ task' = [task EXCEPT ![c] = Holding("lock", raw, "none")]
    /\ UNCHANGED <<sessions, peers, chan, conn, poisoned, result>>

\* What a client sends next in a session of one sharer and one viewer, given
\* its own last frame and the last frame of the other client: the sharer
\* starts, the viewer joins and offers, the sharer answers and leaves.
NextOfSession(mine, theirs) ==
    CASE mine = NoFrame /\ theirs = NoFrame ->
            {Frame("start", Hyphenated(s), Absent, Absent) : s \in Uuid}
      [] mine = NoFrame /\ theirs.type = "start" ->
            {Frame("join", Hyphenated(v), Absent, theirs.uuid) :
                v \in Uuid \ {parse_str(theirs.uuid)}}
      [] mine.type = "join" /\ theirs.type = "start" ->
            {Frame("offer", mine.uuid, mine.room, Absent)}
      [] mine.type = "start" /\ theirs.type = "offer" ->
            {Frame("answer", mine.uuid, theirs.uuid, Absent)}
      [] mine.type = "answer" /\ theirs.type = "offer" ->
            {Frame("leave", mine.uuid, Absent, Absent)}
      [] OTHER -> {}

\* A client sends its next frame once every frame sent so far is handled.
SessionFrames(c) ==
    IF \E k \in Conns : task[k].at \in {"lock", "inside"}
    THEN {}
    ELSE UNION {NextOfSession(task[c].raw, task[k].raw) : k \in Conns \ {c}}

NextSession ==
    \E c \in Conns :
        \/ \E raw \in SessionFrames(c) : Receive(c, raw)
        \/ Lock(c)
        \/ HandleLocked(c)

SpecSession == Init /\ [][NextSession]_vars

\* ------------------------------------------- the two writes under the lock
\* At most MaxBacklog frames are in the relay: held by a task that is not
\* through with them, or queued on a channel.
MaxBacklog == 2

Backlog ==
    Cardinality({k \in Conns : task[k].at \in {"lock", "inside", "mid"}})
    + Cardinality({p \in Conns \X (1..MaxBacklog) : p[2] <= Len(chan[p[1]])})

\* A task between its two writes: it holds frame raw and, in end_session,
\* the session it has removed from the table.
NoSession == [sharer |-> "", viewers |-> {}]
Mid(raw, session) ==
    [at |-> "mid", raw |-> raw, res |-> "none", session |-> session]

\* handle_message with frame raw is going to write the sessions map.
WritesSessions(c, raw) ==
    LET d == handle_message(State(sessions, peers), chan, conn, c, raw) IN
    d.res # "Panic" /\ d.st.sessions # sessions

\* handle_message up to its write of the sessions map: the insert of
\* add_sharer, the insert into viewers of add_viewer, the remove of
\* end_session.
WriteSessions(c) ==
    /\ task[c].at = "inside"
    /\ WritesSessions(c, task[c].raw)
    /\ LET raw == task[c].raw
           d == handle_message(State(sessions, peers), chan, conn, c, raw)
       IN /\ sessions' = d.st.sessions
          /\ task' = [task EXCEPT ![c] =
                         Mid(raw, IF raw.type = "leave"
                                  THEN sessions[peers[parse_str(raw.uuid)].session]
                                  ELSE NoSession)]
    /\ UNCHANGED <<peers, chan, conn, poisoned, result>>

\* handle_message from there on: the insert into peers of add_sharer and of
\* add_viewer and the forward of the Join arm, the removes of end_session.
after_sessions(st, ch, cn, tx, raw, session) ==
    CASE raw.type = "start" ->
            Done(State(st.sessions,
                       Put(st.peers, parse_str(raw.uuid),
                           Peer(parse_str(raw.uuid), tx, "Sharer"))),
                 ch, "Ok")
      [] raw.type = "join" ->
            LET st2 == State(st.sessions,
                             Put(st.peers, parse_str(raw.uuid),
                                 Peer(parse_str(raw.room), tx, "Viewer")))
                f == forward_message(st2, ch, cn, raw.room, raw)
            IN Done(st2, f.chan, f.res)
      [] OTHER ->
            Done(State(st.sessions,
                       Drop(st.peers, session.viewers \cup {session.sharer})),
                 ch, "Ok")

WritePeers(c) ==
    /\ task[c].at = "mid"
    /\ Unlock(c, after_sessions(State(sessions, peers), chan, conn, c,
                                task[c].raw, task[c].session))
    /\ task' = [task EXCEPT ![c] = Holding("done", @.raw, result')]

\* A frame that writes nothing to the sessions map is handled in one step.
HandleWithoutWrite(c) ==
    /\ task[c].at = "inside"
    /\ ~WritesSessions(c, task[c].raw)
    /\ HandleLocked(c)

\* The frames of the tasks: A starts, B joins A, either leaves.
LockFrames ==
    {Frame("start", Hyphenated("A"), Absent, Absent),
     Frame("join", Hyphenated("B"), Absent, Hyphenated("A")),
     Frame("leave", Hyphenated("A"), Absent, Absent),
     Frame("leave", Hyphenated("B"), Absent, Absent)}

NextLock ==
    \E c \in Conns :
        \/ \E raw \in LockFrames : Backlog < MaxBacklog /\ Receive(c, raw)
        \/ Lock(c)
        \/ WriteSessions(c)
        \/ WritePeers(c)
        \/ HandleWithoutWrite(c)
        \/ LockPoisoned(c)
        \/ Deliver(c)

SpecLock == Init /\ [][NextLock]_vars

\* --------------------------------------------- frames racing to one target
\* A starts; A and B send offer and ice frames to A, through either
\* connection.
FifoFrames ==
    {Frame("start", Hyphenated("A"), Absent, Absent)}
    \cup {Frame(t, Hyphenated(u), Hyphenated("A"), Absent) :
            t \in {"offer", "ice"}, u \in {"A", "B"}}

NextFifo ==
    \E c \in Conns :
        \/ \E raw \in FifoFrames : Backlog < MaxBacklog /\ Receive(c, raw)
        \/ Lock(c)
        \/ HandleLocked(c)
        \/ Deliver(c)
        \/ Disconnect(c)

SpecFifo == Init /\ [][NextFifo]_vars

\* ------------------------------------------------- the registry transitions
\* The connections send the frames that change the shared state only:
\* Start, Join and Leave.
NextRegistry ==
    \E c \in Conns :
        \/ \E raw \in StartFrames \cup JoinFrames \cup LeaveFrames :
              HandleFrame(c, raw)
        \/ LockPoisoned(c)
        \/ Deliver(c)
        \/ Disconnect(c)

SpecRegistry == Init /\ [][NextRegistry]_vars

\* ------------------------------------------------------------ the claims
\* The identifier a string parses to is one of the identifiers.
Parses(s) == parse_str(s) # ParseError

\* What handle_message returns for frame raw of connection c in this state.
Returned(c, raw) ==
    handle_message(State(sessions, peers), chan, conn, c, raw).res

\* C1: a session record is in the session table if and only if the peer
\* record of its sharer is in the peer registry.
C1_SessionIffSharerPeer ==
    /\ \A s \in DOMAIN sessions : sessions[s].sharer \in DOMAIN peers
    /\ \A p \in DOMAIN peers :
          peers[p].peer_type = "Sharer" => peers[p].session \in DOMAIN sessions

\* C1's case: session B is in the table with no peer record left at all
\* (after Start{A}, Join{B, A}, Start{B}, Leave{A}).
C1_Witness ==
    sessions = Put(Empty, "B", Session_new("B")) /\ peers = Empty

\* C2: every peer record's session field names a session that is in the
\* session table, in every reachable state; so end_session for a registered
\* peer never returns "Session does not exist".
C2_PeerSessionExists ==
    /\ \A p \in DOMAIN peers : peers[p].session \in DOMAIN sessions
    /\ \A p \in DOMAIN peers :
          end_session(State(sessions, peers), p).res # "SessionNotFound"

\* C2's case: a session that was joined has been ended (its join frame is
\* still queued, the session is gone) while other peers stay registered.
C2_Witness ==
    /\ result = "Ok"
    /\ DOMAIN peers # {}
    /\ \E c \in Conns :
          /\ chan[c] # <<>>
          /\ chan[c][1].type = "join"
          /\ parse_str(chan[c][1].room) \notin DOMAIN sessions

\* C3: a frame whose handling returns an error leaves the session table and
\* the peer registry as they were.
C3_ErrorLeavesStateUnchanged ==
    [][\A c \in Conns : \A raw \in Frames :
          (HandleFrame(c, raw) /\ Returned(c, raw) # "Ok")
              => (sessions' = sessions /\ peers' = peers)]_vars

\* C4: Leave of a well-formed identity with no peer record returns the
\* error PeerNotFound, leaves table and registry unchanged and does not
\* abort the handler.
C4_LeaveUnregisteredIsError ==
    [][\A c \in Conns : \A raw \in LeaveFrames :
          (/\ Parses(raw.uuid)
           /\ parse_str(raw.uuid) \notin DOMAIN peers
           /\ HandleFrame(c, raw))
              => (/\ result' = "PeerNotFound"
                  /\ sessions' = sessions /\ peers' = peers
                  /\ conn'[c] = "open" /\ ~poisoned')]_vars

\* C5: whatever a frame of connection c comes to, c stays open and the lock
\* stays usable for every connection's later frames.
C5_FailureConfinedToFrame ==
    [][\A c \in Conns :
          ((\E raw \in Frames : HandleFrame(c, raw)) \/ LockPoisoned(c))
              => (conn'[c] = "open" /\ ~poisoned')]_vars

\* C6: Join{v, r} with session r in the table succeeds, leaves v in r's
\* viewer set and queues the raw frame once on the channel of r's sharer.
C6_JoinExistingSucceeds ==
    [][\A c \in Conns : \A raw \in JoinFrames :
          (/\ Parses(raw.uuid) /\ Parses(raw.room)
           /\ parse_str(raw.room) \in DOMAIN sessions
           /\ HandleFrame(c, raw))
              => LET v == parse_str(raw.uuid)
                     r == parse_str(raw.room)
                 IN /\ result' = "Ok"
                    /\ r \in DOMAIN sessions' /\ v \in sessions'[r].viewers
                    /\ sessions[r].sharer \in DOMAIN peers
                    /\ chan' = [chan EXCEPT
                                  ![peers[sessions[r].sharer].sender] =
                                      Append(@, raw)]]_vars

\* C7: Leave{s} of the sharer s of a session with viewer set V removes the
\* session s and the peer records of s and of every v in V; afterwards
\* none of them is in the peer registry or in the session table.
C7_SharerLeaveRemovesAll ==
    [][\A c \in Conns : \A raw \in LeaveFrames :
          (/\ Parses(raw.uuid)
           /\ parse_str(raw.uuid) \in DOMAIN sessions
           /\ parse_str(raw.uuid) \in DOMAIN peers
           /\ peers[parse_str(raw.uuid)] =
                 Peer(parse_str(raw.uuid), peers[parse_str(raw.uuid)].sender,
                      "Sharer")
           /\ HandleFrame(c, raw))
              => \A x \in sessions[parse_str(raw.uuid)].viewers
                          \cup {parse_str(raw.uuid)} :
                    x \notin DOMAIN peers' /\ x \notin DOMAIN sessions']_vars

\* C8: a Start or Join that names an identity with a peer record fails and
\* leaves the record as it was; a peer record present before and after a
\* transition is identical.
C8_PeerRecordsFixed ==
    [][/\ \A p \in DOMAIN peers \cap DOMAIN peers' : peers'[p] = peers[p]
       /\ \A c \in Conns : \A raw \in StartFrames \cup JoinFrames :
             (/\ Parses(raw.uuid)
              /\ parse_str(raw.uuid) \in DOMAIN peers
              /\ HandleFrame(c, raw))
                 => (result' # "Ok" /\ peers' = peers)]_vars

\* The identity fields the variant of a frame carries.
IdentityFields(raw) ==
    CASE raw.type = "join" -> {raw.uuid, raw.room}
      [] raw.type \in RelayTags -> {raw.uuid, raw.to}
      [] OTHER -> {raw.uuid}

\* C9: a frame with an identity field that does not parse fails, changes
\* neither table nor registry, and nothing is forwarded.
C9_MalformedIdentityFails ==
    [][\A c \in Conns : \A raw \in Frames :
          (/\ from_str(raw)
           /\ \E f \in IdentityFields(raw) : ~Parses(f)
           /\ HandleFrame(c, raw))
              => (/\ result' # "Ok"
                  /\ sessions' = sessions /\ peers' = peers
                  /\ chan' = chan)]_vars

\* C10: once every connection's Join for the same existing session is
\* handled, in whatever order they got the lock, all have succeeded, the
\* viewer set is exactly their identities and each has a Viewer record.
C10_ConcurrentJoinsAllSucceed ==
    (\A c \in Conns : task[c].at = "done")
        => LET V == {parse_str(task[c].raw.uuid) : c \in Conns} IN
           \A c \in Conns :
              LET r == parse_str(task[c].raw.room) IN
              /\ task[c].res = "Ok"
              /\ r \in DOMAIN sessions
              /\ sessions[r].viewers = V
              /\ \A v \in V : /\ v \in DOMAIN peers
                              /\ peers[v].session = r
                              /\ peers[v].peer_type = "Viewer"

\* C11 (as the code has it): Offer, Answer or Ice{uuid, to} with a peer
\* record for to whose connection is open queues exactly the received frame
\* at the end of that record's channel and on no other channel; with the
\* connection closed it fails with a send error and with no peer record
\* for to it fails with PeerNotFound, and nothing is queued; the session
\* table and the peer registry are unchanged in every case.
C11_RelayToOpenTarget ==
    [][\A c \in Conns : \A raw \in NegotiationFrames :
          (Parses(raw.to) /\ HandleFrame(c, raw))
              => LET to == parse_str(raw.to) IN
                 /\ sessions' = sessions /\ peers' = peers
                 /\ IF to \notin DOMAIN peers
                    THEN result' = "PeerNotFound" /\ chan' = chan
                    ELSE IF conn[peers[to].sender] = "open"
                         THEN /\ result' = "Ok"
                              /\ chan' = [chan EXCEPT ![peers[to].sender] =
                                                        Append(@, raw)]
                         ELSE result' = "SendError" /\ chan' = chan]_vars

\* C11's case: an answer or ice frame is at the head of the channel of the
\* connection that registered its target.
C11_Witness ==
    \E c \in Conns :
        /\ chan[c] # <<>>
        /\ chan[c][1].type \in {"answer", "ice"}
        /\ parse_str(chan[c][1].to) \in DOMAIN peers
        /\ peers[parse_str(chan[c][1].to)].sender = c

\* C11 as stated: whenever to has a peer record, the received frame is
\* queued on that record's channel and on no other; without one the frame
\* fails with PeerNotFound and nothing is queued; table and registry are
\* unchanged.
C11_RelayToRegistered ==
    [][\A c \in Conns : \A raw \in NegotiationFrames :
          (Parses(raw.to) /\ HandleFrame(c, raw))
              => LET to == parse_str(raw.to) IN
                 /\ sessions' = sessions /\ peers' = peers
                 /\ IF to \notin DOMAIN peers
                    THEN result' = "PeerNotFound" /\ chan' = chan
                    ELSE chan' = [chan EXCEPT ![peers[to].sender] =
                                                 Append(@, raw)]]_vars

\* C12: Start{uuid: p} handled while session p is in the table fails with
\* SessionAlreadyExists, and the session table and the peer registry (the
\* sender of p's record included) are afterwards what they were before.
C12_StartExistingFails ==
    [][\A c \in Conns : \A raw \in StartFrames :
          (/\ Parses(raw.uuid)
           /\ parse_str(raw.uuid) \in DOMAIN sessions
           /\ HandleFrame(c, raw))
              => (/\ result' = "SessionAlreadyExists"
                  /\ sessions' = sessions
                  /\ peers' = peers)]_vars

\* C12's case: a Start was rejected while a session whose sharer record
\* holds the sender of the other connection's task is in the table.
C12_Witness ==
    /\ result = "SessionAlreadyExists"
    /\ \E p \in DOMAIN sessions \cap DOMAIN peers :
          peers[p] = Peer(p, "a", "Sharer") /\ sessions[p].viewers # {}

\* C13: a Start{uuid: p} of connection c that succeeds leaves session p with
\* sharer p and no viewers, and the peer record of p with session p, role
\* Sharer and the sender of c; nothing is queued on any channel.
C13_StartRegistersSharer ==
    [][\A c \in Conns : \A raw \in StartFrames :
          (Returned(c, raw) = "Ok" /\ HandleFrame(c, raw))
              => LET p == parse_str(raw.uuid) IN
                 /\ p \in DOMAIN sessions'
                 /\ sessions'[p] = [sharer |-> p, viewers |-> {}]
                 /\ p \in DOMAIN peers'
                 /\ peers'[p] = [session |-> p, sender |-> c,
                                 peer_type |-> "Sharer"]
                 /\ chan' = chan]_vars

\* C13's case: a Start has succeeded for an identity that is a viewer of
\* another session: its record is the Sharer record now.
C13_Witness ==
    /\ result = "Ok"
    /\ \E p \in DOMAIN sessions \cap DOMAIN peers :
          /\ sessions[p] = [sharer |-> p, viewers |-> {}]
          /\ peers[p].peer_type = "Sharer"
          /\ \E r \in DOMAIN sessions : p \in sessions[r].viewers

\* C14: from the empty state, Start{s} from one connection, Join{v, room s}
\* and Offer{v, to s} from the other, Answer{s, to v} and Leave{s} from the
\* first end with the join frame and then the offer frame on the first
\* connection's channel, the answer frame on the other's, every frame
\* handled with success, and neither s nor v in the peer registry or the
\* session table.
C14_SessionEndToEnd ==
    \A a, b \in Conns :
        (/\ a # b
         /\ task[a].at = "done" /\ task[a].raw.type = "leave"
         /\ task[b].raw.type = "offer")
            => LET s == task[a].raw.uuid
                   v == task[b].raw.uuid
               IN /\ chan[a] = <<Frame("join", v, Absent, s),
                                 Frame("offer", v, s, Absent)>>
                  /\ chan[b] = <<Frame("answer", s, v, Absent)>>
                  /\ task[a].res = "Ok" /\ task[b].res = "Ok"
                  /\ {parse_str(s), parse_str(v)} \cap DOMAIN peers = {}
                  /\ {parse_str(s), parse_str(v)} \cap DOMAIN sessions = {}

\* C14's case: the session of sharer A on connection a and viewer B on b
\* is over.
C14_Witness ==
    /\ task["a"].at = "done"
    /\ task["a"].raw = Frame("leave", Hyphenated("A"), Absent, Absent)
    /\ task["b"].raw = Frame("offer", Hyphenated("B"), Hyphenated("A"), Absent)

\* C15: at most one task is inside the handling of a frame at a time, from
\* the lock to the unlock, both writes included; so a task that has the
\* lock and is about to read the maps never sees another task's
\* half-done transition: no session removed with a member's peer record
\* still in the registry, no other task between its two writes.
C15_OneHandlerInside ==
    /\ \A c, k \in Conns :
          (c # k /\ task[c].at \in {"inside", "mid"})
              => task[k].at \notin {"inside", "mid"}
    /\ \A c \in Conns :
          task[c].at = "inside"
              => \A p \in DOMAIN peers : peers[p].session \in DOMAIN sessions

\* C15's case: a task is between its two writes, the session removed and
\* a member's peer record still there, while the other task has a frame
\* and waits for the lock.
C15_Witness ==
    \E c, k \in Conns :
        /\ task[c].at = "mid"
        /\ task[k].at = "lock"
        /\ \E p \in DOMAIN peers : peers[p].session \notin DOMAIN sessions

\* C16: Leave{v} of a registered Viewer v of a session r that is in the
\* table removes session r, the peer record of r's sharer and the peer
\* records of all of r's viewers, v among them, and queues nothing; and no
\* transition takes a viewer away (out of the viewer set, or its Viewer
\* record out of the registry) from a session that stays in the table.
C16_ViewerLeaveEndsSession ==
    [][/\ \A c \in Conns : \A raw \in LeaveFrames :
             (/\ Parses(raw.uuid)
              /\ parse_str(raw.uuid) \in DOMAIN peers
              /\ peers[parse_str(raw.uuid)].peer_type = "Viewer"
              /\ peers[parse_str(raw.uuid)].session \in DOMAIN sessions
              /\ HandleFrame(c, raw))
                 => LET v == parse_str(raw.uuid)
                        r == peers[v].session
                    IN /\ result' = "Ok"
                       /\ r \notin DOMAIN sessions'
                       /\ \A x \in sessions[r].viewers \cup {sessions[r].sharer, v} :
                             x \notin DOMAIN peers'
                       /\ chan' = chan
       /\ \A r \in DOMAIN sessions \cap DOMAIN sessions' :
             sessions[r].viewers \subseteq sessions'[r].viewers
       /\ \A v \in DOMAIN peers :
             (/\ peers[v].peer_type = "Viewer"
              /\ peers[v].session \in DOMAIN sessions')
                 => v \in DOMAIN peers']_vars

\* C17: a frame forwarded with success is queued behind all frames already
\* on its target's channel, in the step in which it is handled under the
\* lock; a delivery takes the frame at the head of the channel, once; and
\* a channel changes in no other way, but for its being dropped with its
\* connection.  So each connection gets its frames in the order in which
\* they were handled, whatever the order of the source connections.
C17_ChannelsAreFifo ==
    [][/\ \A c \in Conns :
             (/\ task[c].raw.type \in RelayTags
              /\ HandleLocked(c)
              /\ result' = "Ok")
                 => chan' = [chan EXCEPT
                               ![peers[parse_str(task[c].raw.to)].sender] =
                                   Append(@, task[c].raw)]
       /\ \A k \in Conns :
             Deliver(k) => chan' = [chan EXCEPT ![k] = Tail(@)]
       /\ \A k \in Conns :
             chan'[k] # chan[k]
                 => \/ \E c \in Conns :
                          /\ HandleLocked(c)
                          /\ chan'[k] = Append(chan[k], task[c].raw)
                    \/ Deliver(k)
                    \/ conn'[k] = "closed" /\ chan'[k] = <<>>]_vars

\* C17's case: two different frames, from the tasks of both connections,
\* are queued on one channel, the frame of b ahead of the frame of a.
C17_Witness ==
    \E k \in Conns :
        /\ task["a"].at = "done" /\ task["b"].at = "done"
        /\ task["a"].raw # task["b"].raw
        /\ chan[k] = <<task["b"].raw, task["a"].raw>>

\* C18: a disconnect changes neither the session table nor the peer
\* registry; and a frame handled later whose forward target is a record
\* registered through a closed connection fails with a send error: nothing
\* is queued, the sending connection stays open and the lock usable.
C18_DisconnectKeepsRecords ==
    [][/\ \A c \in Conns :
             Disconnect(c) => (sessions' = sessions /\ peers' = peers)
       /\ \A c \in Conns : \A raw \in NegotiationFrames :
             (/\ Parses(raw.to)
              /\ parse_str(raw.to) \in DOMAIN peers
              /\ conn[peers[parse_str(raw.to)].sender] = "closed"
              /\ HandleFrame(c, raw))
                 => (/\ result' = "SendError"
                     /\ chan' = chan
                     /\ conn' = conn
                     /\ ~poisoned'
                     /\ sessions' = sessions /\ peers' = peers)
       /\ \A c \in Conns : \A raw \in SetupFrames :
             (/\ raw.type = "join"
              /\ parse_str(raw.room) \in DOMAIN sessions \cap DOMAIN peers
              /\ parse_str(raw.room) # parse_str(raw.uuid)
              /\ conn[peers[parse_str(raw.room)].sender] = "closed"
              /\ HandleFrame(c, raw))
                 => (/\ result' = "SendError"
                     /\ chan' = chan
                     /\ conn' = conn
                     /\ ~poisoned')]_vars

\* C18's case: a frame has failed with a send error and the connection of
\* a registered sharer, whose session is in the table, is closed while the
\* other connection is open.
C18_Witness ==
    /\ result = "SendError"
    /\ \E p \in DOMAIN peers \cap DOMAIN sessions :
          /\ conn[peers[p].sender] = "closed"
          /\ \E c \in Conns : conn[c] = "open"

\* C19: in every reachable state a Sharer record stored under p has
\* session p, and session p is in the table with sharer p; a Viewer record
\* with session r is stored under a member of r's viewer set; and every
\* member v of the viewer set of a session r has a Viewer record with
\* session r.
C19_RolesMatchMembership ==
    /\ \A p \in DOMAIN peers :
          peers[p].peer_type = "Sharer"
              => /\ peers[p].session = p
                 /\ p \in DOMAIN sessions
                 /\ sessions[p].sharer = p
    /\ \A p \in DOMAIN peers :
          peers[p].peer_type = "Viewer"
              => /\ peers[p].session \in DOMAIN sessions
                 /\ p \in sessions[peers[p].session].viewers
    /\ \A r \in DOMAIN sessions : \A v \in sessions[r].viewers :
          /\ v \in DOMAIN peers
          /\ peers[v].peer_type = "Viewer"
          /\ peers[v].session = r

\* C20: in every reachable state, for every session s in the table,
\* handling Leave{uuid: s} succeeds and takes session s out of the table.
C20_SessionEndsByOwnIdentity ==
    \A s \in DOMAIN sessions :
        LET d == handle_message(State(sessions, peers), chan, conn, "a",
                                Frame("leave", Hyphenated(s), Absent, Absent))
        IN d.res = "Ok" /\ s \notin DOMAIN d.st.sessions

====
